---- MODULE Spec2Model ----
(***************************************************************************)
(* Faceted gall search of pages/search2.tsx: the predicate evaluator       *)
(* (dontCare, checkLocations, checkTextures, checkGall), the query merge   *)
(* (updateQuery) and the two handlers of the page component Search2        *)
(* (onSubmit for the host/genus form, doSearch for the facet inputs).      *)
(*                                                                         *)
(* JavaScript values are tagged records [t |-> type, v |-> payload].  A    *)
(* string's payload is its sequence of characters, so that v[0] and        *)
(* String.prototype.includes are computed, not assumed; an array's payload *)
(* is the sequence of its (string) elements.                               *)
(***************************************************************************)
EXTENDS Integers, Sequences, FiniteSets, TLC

VARIABLES
    galls,       \* useState(new Array<Gall>()): the displayed galls
    query,       \* useState(router.query as SearchQuery)
    filterForm,  \* values held by the facet form (filterControl)
    hostField,   \* value of the root form's "host" field, undefined at first
    genusField,  \* value of the root form's "genus" field, undefined at first
    requests,    \* the calls of onSubmit so far, each with its fetch's fate
    superset,    \* history: the body of the last successful fetch
    excluded,    \* history: ids filtered out since the last successful fetch
    narrowing,   \* history: the last successful fetch found no facet set, and
                 \* every edit since has set a value on a facet that had none
    evalG,       \* input of an isolated checkGall call: the gall
    evalQ,       \* input of an isolated checkGall call: the query
    evalOut      \* what that call computed

vars == <<galls, query, filterForm, hostField, genusField, requests,
          superset, excluded, narrowing, evalG, evalQ, evalOut>>
pageVars == <<galls, query, filterForm, hostField, genusField, requests,
              superset, excluded, narrowing>>
evalVars == <<evalG, evalQ, evalOut>>

-----------------------------------------------------------------------------
(* Bounds of the exploration.                                              *)
MaxSubmits == 2
MaxConstrained == 2
MaxDeviations == 1

-----------------------------------------------------------------------------
(* JavaScript values.                                                      *)
Undefined == [t |-> "undefined", v |-> <<>>]
Null == [t |-> "null", v |-> <<>>]
Str(s) == [t |-> "string", v |-> s]
Arr(a) == [t |-> "array", v |-> a]
Num(n) == [t |-> "number", v |-> n]
Obj(o) == [t |-> "object", v |-> o]

\* !!o
Truthy(o) ==
    CASE o.t = "undefined" -> FALSE
      [] o.t = "null" -> FALSE
      [] o.t = "string" -> Len(o.v) > 0
      [] o.t = "number" -> o.v # 0
      [] OTHER -> TRUE

\* Array.isArray(o)
IsArray(o) == o.t = "array"

\* a === b, for values that are never the same object
StrictEq(a, b) == a.t = b.t /\ a.t \notin {"array", "object"} /\ a.v = b.v

\* o == null
IsNullish(o) == o.t \in {"null", "undefined"}

\* o?.name
Field(o, name) == IF IsNullish(o) THEN Undefined ELSE o.v[name]

\* v[0]: the first element of an array, the first character of a string
Index0(v) == IF v.t = "array" THEN Str(v.v[1]) ELSE Str(<<v.v[1]>>)

\* String.prototype.includes
IsSubstring(s, whole) ==
    \E i \in 0..(Len(whole) - Len(s)) : SubSeq(whole, i + 1, i + Len(s)) = s

\* queryvals.includes(s): Array.prototype.includes or String.prototype.includes
Includes(queryvals, s) ==
    IF queryvals.t = "array"
    THEN \E i \in 1..Len(queryvals.v) : queryvals.v[i] = s
    ELSE IsSubstring(s, queryvals.v)

-----------------------------------------------------------------------------
(* The strings of the model, as character sequences.                       *)
empty == <<>>
quercus == <<"Q", "u", "e", "r", "c", "u", "s">>
quercusAlba == <<"Q", "u", "e", "r", "c", "u", "s", " ", "a", "l", "b", "a">>
green == <<"g", "r", "e", "e", "n">>
Green == <<"G", "r", "e", "e", "n">>
brown == <<"b", "r", "o", "w", "n">>
stem == <<"s", "t", "e", "m">>
leaf == <<"l", "e", "a", "f">>
leafy == <<"l", "e", "a", "f", "y">>
root == <<"r", "o", "o", "t">>
hairy == <<"h", "a", "i", "r", "y">>
smooth == <<"s", "m", "o", "o", "t", "h">>
erect == <<"e", "r", "e", "c", "t">>
mono == <<"m", "o", "n", "o">>
round == <<"r", "o", "u", "n", "d">>
thin == <<"t", "h", "i", "n">>
other == <<"o", "t", "h", "e", "r">>
yes == <<"y", "e", "s">>
no == <<"n", "o">>
unsure == <<"u", "n", "s", "u", "r", "e">>

SingleFacets == {"alignment", "cells", "color", "detachable", "shape", "walls"}
MultiFacets == {"locations", "textures"}
Facets == SingleFacets \cup MultiFacets

-----------------------------------------------------------------------------
(* The predicate evaluator.                                                *)

\* variant of dontCare that forgets the empty-array case
dontCare_noArrays(o) == ~Truthy(o)

dontCare(o) ==
    LET truthy == Truthy(o)
    IN  ~truthy \/ (IF truthy /\ IsArray(o) THEN Len(o.v) = 0 ELSE FALSE)

\* variant of checkLocations that uses every() where the code uses some()
checkLocations_every(gallprops, queryvals) ==
    IF IsNullish(gallprops) \/ IsNullish(queryvals) THEN FALSE
    ELSE \A i \in 1..Len(gallprops.v) :
            LET tag == Field(Field(gallprops.v[i], "location"), "location")
            IN  Truthy(tag) /\ Includes(queryvals, tag.v)

checkLocations(gallprops, queryvals) ==
    IF IsNullish(gallprops) \/ IsNullish(queryvals) THEN FALSE
    ELSE \E i \in 1..Len(gallprops.v) :
            LET tag == Field(Field(gallprops.v[i], "location"), "location")
            IN  Truthy(tag) /\ Includes(queryvals, tag.v)

checkTextures(gallprops, queryvals) ==
    IF IsNullish(gallprops) \/ IsNullish(queryvals) THEN FALSE
    ELSE \E i \in 1..Len(gallprops.v) :
            LET tag == Field(Field(gallprops.v[i], "texture"), "texture")
            IN  Truthy(tag) /\ Includes(queryvals, tag.v)

\* the eight constants of checkGall, one per facet
facetAlignment(g, q) ==
    dontCare(q.alignment)
    \/ (Truthy(g.alignment) /\ StrictEq(Field(g.alignment, "alignment"), q.alignment))

facetCells(g, q) ==
    dontCare(q.cells) \/ (Truthy(g.cells) /\ StrictEq(Field(g.cells, "cells"), q.cells))

\* variant of the color constant that compares with q.shape
facetColor_shapeQuery(g, q) ==
    dontCare(q.color) \/ (Truthy(g.color) /\ StrictEq(Field(g.color, "color"), q.shape))

facetColor(g, q) ==
    dontCare(q.color) \/ (Truthy(g.color) /\ StrictEq(Field(g.color, "color"), q.color))

facetDetachable(g, q) ==
    dontCare(q.detachable)
    \/ (Truthy(g.detachable)
        /\ StrictEq(IF g.detachable.t = "number" /\ g.detachable.v = 0
                    THEN Str(no) ELSE Str(yes),
                    q.detachable))

facetShape(g, q) ==
    dontCare(q.shape) \/ (Truthy(g.shape) /\ StrictEq(Field(g.shape, "shape"), q.shape))

facetWalls(g, q) ==
    dontCare(q.walls) \/ (Truthy(g.walls) /\ StrictEq(Field(g.walls, "walls"), q.walls))

facetLocation(g, q) ==
    dontCare(q.locations)
    \/ (Truthy(g.galllocation) /\ checkLocations(g.galllocation, q.locations))

\* variant of the texture constant whose don't-care test reads q.locations
facetTexture_locationsQuery(g, q) ==
    dontCare(q.locations)
    \/ (Truthy(g.galltexture) /\ checkTextures(g.galltexture, q.textures))

facetTexture(g, q) ==
    dontCare(q.textures)
    \/ (Truthy(g.galltexture) /\ checkTextures(g.galltexture, q.textures))

\* variant of checkGall whose conjunction leaves out walls
checkGall_noWalls(g, q) ==
    /\ facetAlignment(g, q)
    /\ facetCells(g, q)
    /\ facetColor(g, q)
    /\ facetDetachable(g, q)
    /\ facetShape(g, q)
    /\ facetLocation(g, q)
    /\ facetTexture(g, q)

checkGall(g, q) ==
    /\ facetAlignment(g, q)
    /\ facetCells(g, q)
    /\ facetColor(g, q)
    /\ facetDetachable(g, q)
    /\ facetShape(g, q)
    /\ facetWalls(g, q)
    /\ facetLocation(g, q)
    /\ facetTexture(g, q)

\* the constant checkGall computes for facet f
facetResult(f, g, q) ==
    CASE f = "alignment" -> facetAlignment(g, q)
      [] f = "cells" -> facetCells(g, q)
      [] f = "color" -> facetColor(g, q)
      [] f = "detachable" -> facetDetachable(g, q)
      [] f = "shape" -> facetShape(g, q)
      [] f = "walls" -> facetWalls(g, q)
      [] f = "locations" -> facetLocation(g, q)
      [] f = "textures" -> facetTexture(g, q)

-----------------------------------------------------------------------------
(* Galls.  A gall row carries one nullable relation per single-valued      *)
(* attribute ({alignment: string | null} | null, ...), a nullable numeric  *)
(* detachable code, and two nullable lists of location / texture rows.     *)

Named(field, s) == Obj(field :> Str(s))
Unnamed(field) == Obj(field :> Null)
Loc(s) == Obj("location" :> Named("location", s))
Tex(s) == Obj("texture" :> Named("texture", s))
Locs(tags) == Arr([i \in 1..Len(tags) |-> Loc(tags[i])])
Texs(tags) == Arr([i \in 1..Len(tags) |-> Tex(tags[i])])

AllUndefined == [f \in Facets |-> Undefined]

\* a gall with every attribute populated
BaseGall ==
    [id |-> 0,
     alignment |-> Named("alignment", erect),
     cells |-> Named("cells", mono),
     color |-> Named("color", green),
     detachable |-> Num(1),
     shape |-> Named("shape", round),
     walls |-> Named("walls", thin),
     galllocation |-> Locs(<<stem, leaf>>),
     galltexture |-> Texs(<<hairy>>)]

Attrs == {"alignment", "cells", "color", "detachable", "shape", "walls",
          "galllocation", "galltexture"}

\* the other values an attribute takes in the evaluated galls
Alternatives(a) ==
    CASE a = "color" -> {Null, Unnamed("color"), Named("color", Green)}
      [] a = "detachable" -> {Null, Num(0), Num(2)}
      [] a = "galllocation" -> {Null, Arr(<<>>), Arr(<<Obj("location" :> Null)>>)}
      [] a = "galltexture" -> {Null, Arr(<<>>)}
      [] OTHER -> {Null}

AttrValues(a) == {BaseGall[a]} \cup Alternatives(a)

Deviations(g) == Cardinality({a \in Attrs : g[a] \notin {BaseGall[a]}})

EvalGalls ==
    {g \in {[id |-> 0, alignment |-> al, cells |-> ce, color |-> co,
             detachable |-> de, shape |-> sh, walls |-> wa,
             galllocation |-> lo, galltexture |-> te] :
                al \in AttrValues("alignment"), ce \in AttrValues("cells"),
                co \in AttrValues("color"), de \in AttrValues("detachable"),
                sh \in AttrValues("shape"), wa \in AttrValues("walls"),
                lo \in AttrValues("galllocation"), te \in AttrValues("galltexture")} :
        Deviations(g) <= MaxDeviations}

\* the values a facet of an evaluated query takes when it is set
QueryValues(f) ==
    CASE f = "alignment" -> {Str(empty), Str(erect), Str(other)}
      [] f = "cells" -> {Arr(<<>>), Str(mono), Str(other)}
      [] f = "color" -> {Str(empty), Arr(<<>>), Str(green), Str(brown), Arr(<<green>>)}
      [] f = "detachable" -> {Arr(<<>>), Str(yes), Str(no), Str(unsure)}
      [] f = "shape" -> {Str(empty), Str(round), Str(other)}
      [] f = "walls" -> {Arr(<<>>), Str(thin), Str(other)}
      [] f = "locations" -> {Arr(<<>>), Str(empty), Arr(<<leaf, root>>), Arr(<<root>>),
                             Str(leaf)}
      [] f = "textures" -> {Arr(<<>>), Arr(<<hairy>>), Arr(<<smooth>>)}

Constrained(q) == {f \in Facets : q[f].t # "undefined"}

EvalQueries ==
    UNION {{[f \in Facets |-> IF f \in D THEN pick[f] ELSE Undefined] :
                pick \in {p \in [D -> UNION {QueryValues(f) : f \in D}] :
                            \A f \in D : p[f] \in QueryValues(f)}} :
           D \in {D \in SUBSET Facets : Cardinality(D) <= MaxConstrained}}

-----------------------------------------------------------------------------
(* The page's data: what the search API returns, what the inputs send.     *)

gall1 == [BaseGall EXCEPT !.id = 1, !.galllocation = Locs(<<stem>>)]
gall2 == [BaseGall EXCEPT !.id = 2, !.color = Named("color", brown),
                          !.galllocation = Locs(<<leaf>>), !.detachable = Num(0)]
gall3 == [BaseGall EXCEPT !.id = 3, !.galllocation = Locs(<<leaf>>),
                          !.galltexture = Null]
gall4 == [BaseGall EXCEPT !.id = 4, !.color = Null, !.detachable = Null,
                          !.galllocation = Locs(<<stem, leaf>>)]

\* bodies the search API answers with
Bodies == {<<gall1, gall2, gall3>>, <<gall3, gall4>>, <<>>}

\* router.query when the page is opened: no facet, or a facet in the URL
InitQueries == {AllUndefined, [AllUndefined EXCEPT !["color"] = Str(brown)]}

\* what the root form's fields can hold
HostValues == {Str(empty), Str(quercusAlba)}
GenusValues == {Str(empty), Str(quercus)}

\* (field, selected) pairs the facet typeaheads pass to onChange
ChangeInputs ==
    {<<"color", Arr(<<green>>)>>, <<"color", Arr(<<brown, green>>)>>,
     <<"color", Arr(<<>>)>>, <<"locations", Arr(<<leaf, root>>)>>}

\* (field, text) pairs entered with the Enter key
EnterInputs ==
    {<<"color", green>>, <<"locations", leafy>>}

Ids(gs) == {gs[i].id : i \in 1..Len(gs)}

-----------------------------------------------------------------------------
(* The page component Search2.                                             *)

InitPage ==
    /\ galls = <<>>
    /\ query \in InitQueries
    /\ filterForm = AllUndefined
    /\ hostField = Undefined
    /\ genusField = Undefined
    /\ requests = <<>>
    /\ superset = <<>>
    /\ excluded = {}
    /\ narrowing = FALSE

NoOutput ==
    [done |-> FALSE, dc |-> [f \in Facets |-> FALSE],
     facet |-> [f \in Facets |-> FALSE], match |-> FALSE]

Init ==
    /\ InitPage
    /\ evalG = BaseGall
    /\ evalQ = AllUndefined
    /\ evalOut = NoOutput

\* variant of updateQuery that takes the first element for every facet
updateQuery_firstOfAll(f, v) ==
    LET value == IF Len(v.v) > 0 THEN Index0(v) ELSE v
    IN  [query EXCEPT ![f] = value]

\* variant of updateQuery that leaves the query alone for an empty value
updateQuery_skipsEmpty(f, v) ==
    LET value == IF f # "locations" /\ f # "textures" /\ Len(v.v) > 0
                 THEN Index0(v) ELSE v
    IN  IF Len(v.v) = 0 THEN query ELSE [query EXCEPT ![f] = value]

updateQuery(f, v) ==
    LET value == IF f # "locations" /\ f # "textures" /\ Len(v.v) > 0
                 THEN Index0(v) ELSE v
    IN  [query EXCEPT ![f] = value]

\* variant of doSearch that filters the fetched superset
doSearch_fromSuperset(field, value) ==
    LET newq == updateQuery(field, value)
        filtered == SelectSeq(superset, LAMBDA g : checkGall(g, newq))
    IN  /\ query' = newq
        /\ galls' = filtered
        /\ excluded' = excluded \cup (Ids(galls) \ Ids(filtered))
        /\ narrowing' = (narrowing /\ Len(query[field].v) = 0 /\ Len(value.v) > 0)

\* variant of doSearch that filters with the query before the edit
doSearch_oldQuery(field, value) ==
    LET newq == updateQuery(field, value)
        filtered == SelectSeq(galls, LAMBDA g : checkGall(g, query))
    IN  /\ query' = newq
        /\ galls' = filtered
        /\ excluded' = excluded \cup (Ids(galls) \ Ids(filtered))
        /\ narrowing' = (narrowing /\ Len(query[field].v) = 0 /\ Len(value.v) > 0)

\* variant of doSearch that stores the query and leaves the galls as they are
doSearch_noFilter(field, value) ==
    LET newq == updateQuery(field, value)
    IN  /\ galls' = galls
        /\ query' = newq
        /\ excluded' = excluded
        /\ narrowing' = (narrowing /\ Len(query[field].v) = 0 /\ Len(value.v) > 0)

\* variant of doSearch that displays the matching galls last to first
doSearch_reversed(field, value) ==
    LET newq == updateQuery(field, value)
        kept == SelectSeq(galls, LAMBDA g : checkGall(g, newq))
        filtered == [i \in 1..Len(kept) |-> kept[Len(kept) + 1 - i]]
    IN  /\ query' = newq
        /\ galls' = filtered
        /\ excluded' = excluded \cup (Ids(galls) \ Ids(filtered))
        /\ narrowing' = (narrowing /\ Len(query[field].v) = 0 /\ Len(value.v) > 0)

\* updateQuery, filter the displayed galls, setGalls, setQuery
doSearch(field, value) ==
    LET newq == updateQuery(field, value)
        filtered == SelectSeq(galls, LAMBDA g : checkGall(g, newq))
    IN  /\ query' = newq
        /\ galls' = filtered
        /\ excluded' = excluded \cup (Ids(galls) \ Ids(filtered))
        /\ narrowing' = (narrowing /\ Len(query[field].v) = 0 /\ Len(value.v) > 0)

\* variant in which a facet input is never disabled
FacetInputEnabled_always == TRUE

\* a facet input is rendered with disabled={!(galls.length > 0)}
FacetInputEnabled == Len(galls) > 0

\* variant of onChange that also fetches the superset again
onChange_refetches(field, selected) ==
    /\ FacetInputEnabled
    /\ filterForm' = [filterForm EXCEPT ![field] = selected]
    /\ doSearch(field, selected)
    /\ requests' = IF Len(requests) < MaxSubmits
                   THEN Append(requests,
                               [url |-> <<"host", quercusAlba>>, status |-> "pending"])
                   ELSE requests
    /\ UNCHANGED <<hostField, genusField, superset>>

\* onChange of a facet typeahead: the control keeps the selection
onChange(field, selected) ==
    /\ FacetInputEnabled
    /\ filterForm' = [filterForm EXCEPT ![field] = selected]
    /\ doSearch(field, selected)
    /\ UNCHANGED <<hostField, genusField, requests, superset>>

\* onKeyDown of a facet typeahead, for the Enter key
onKeyDown(field, text) ==
    /\ FacetInputEnabled
    /\ doSearch(field, Str(text))
    /\ UNCHANGED <<filterForm, hostField, genusField, requests, superset>>

\* the host typeahead: a selection, and its onBlur
ChangeHost(v) ==
    /\ hostField # v
    /\ hostField' = v
    /\ UNCHANGED <<galls, query, filterForm, genusField, requests,
                   superset, excluded, narrowing>>

BlurHost ==
    /\ genusField' = Str(empty)
    /\ UNCHANGED <<galls, query, filterForm, hostField, requests,
                   superset, excluded, narrowing>>

\* the genus typeahead: a selection, and its onBlur
ChangeGenus(v) ==
    /\ genusField # v
    /\ genusField' = v
    /\ UNCHANGED <<galls, query, filterForm, hostField, requests,
                   superset, excluded, narrowing>>

BlurGenus ==
    /\ hostField' = Str(empty)
    /\ UNCHANGED <<galls, query, filterForm, genusField, requests,
                   superset, excluded, narrowing>>

\* yup.string().required(): undefined, null and '' are rejected
Required(o) == o.t = "string" /\ Len(o.v) > 0

\* the fields the yup schema rejects: each is required when the other is '',
\* and an optional string otherwise (undefined passes)
Schema(host, genus) ==
    (IF StrictEq(genus, Str(empty)) /\ ~Required(host) THEN {"host"} ELSE {})
    \cup (IF StrictEq(host, Str(empty)) /\ ~Required(genus) THEN {"genus"} ELSE {})

\* `${o}` in a template literal
Interpolate(o) ==
    IF o.t = "undefined" THEN <<"u", "n", "d", "e", "f", "i", "n", "e", "d">>
    ELSE o.v

\* onSubmit up to its await: filterReset(), then the fetch is issued
onSubmit(host, genus) ==
    /\ filterForm' = AllUndefined
    /\ requests' = Append(requests,
                          [url |-> IF Truthy(host)
                                   THEN <<"host", Interpolate(host)>>
                                   ELSE <<"genus", Interpolate(genus)>>,
                           status |-> "pending"])
    /\ UNCHANGED <<galls, query, superset, excluded, narrowing>>

\* handleSubmit(onSubmit): the resolver validates, onSubmit runs if it passes
handleSubmit ==
    /\ UNCHANGED <<hostField, genusField>>
    /\ IF Schema(hostField, genusField) = {}
       THEN /\ Len(requests) < MaxSubmits
            /\ onSubmit(hostField, genusField)
       ELSE UNCHANGED <<galls, query, filterForm, requests, superset, excluded, narrowing>>

Pending == {i \in 1..Len(requests) : requests[i].status = "pending"}

\* variant of the 200 branch that appends the body to the displayed galls
onSubmitOk_merges(i, body) ==
    /\ requests' = [requests EXCEPT
                      ![i] = [status |-> "ok", seen |-> Len(requests)]]
    /\ galls' = galls \o body
    /\ superset' = body
    /\ excluded' = {}
    /\ narrowing' = \A f \in Facets : Len(query[f].v) = 0
    /\ UNCHANGED <<query, filterForm, hostField, genusField>>

\* onSubmit after its await, res.status === 200: setGalls(await res.json());
\* the entry keeps how many submissions had been made by that moment
onSubmitOk(i, body) ==
    /\ requests' = [requests EXCEPT
                      ![i] = [status |-> "ok", seen |-> Len(requests)]]
    /\ galls' = body
    /\ superset' = body
    /\ excluded' = {}
    /\ narrowing' = \A f \in Facets : Len(query[f].v) = 0
    /\ UNCHANGED <<query, filterForm, hostField, genusField>>

\* how a submission fails: fetch rejects, the status is not 200, or the body
\* is not JSON; each lands in the catch block
Failures == {"fetch rejected", "status not 200", "body not json"}

\* variant of the catch block that also empties the displayed galls
onSubmitCatch_clearsGalls(i, why) ==
    /\ requests' = [requests EXCEPT ![i] = [status |-> "failed"]]
    /\ galls' = <<>>
    /\ UNCHANGED <<query, filterForm, hostField, genusField,
                   superset, excluded, narrowing>>

\* onSubmit after its await, in the catch block: console.error(e)
onSubmitCatch(i, why) ==
    /\ requests' = [requests EXCEPT ![i] = [status |-> "failed"]]
    /\ UNCHANGED <<galls, query, filterForm, hostField, genusField,
                   superset, excluded, narrowing>>

Next ==
    \/ \E v \in HostValues : ChangeHost(v) /\ UNCHANGED evalVars
    \/ \E v \in GenusValues : ChangeGenus(v) /\ UNCHANGED evalVars
    \/ BlurHost /\ UNCHANGED evalVars
    \/ BlurGenus /\ UNCHANGED evalVars
    \/ handleSubmit /\ UNCHANGED evalVars
    \/ \E i \in Pending, body \in Bodies : onSubmitOk(i, body) /\ UNCHANGED evalVars
    \/ \E i \in Pending, why \in Failures : onSubmitCatch(i, why) /\ UNCHANGED evalVars
    \/ \E in \in ChangeInputs : onChange(in[1], in[2]) /\ UNCHANGED evalVars
    \/ \E in \in EnterInputs : onKeyDown(in[1], in[2]) /\ UNCHANGED evalVars

Spec == Init /\ [][Next]_vars

-----------------------------------------------------------------------------
(* checkGall on its own: one call on a gall and a query drawn from the     *)
(* evaluated sets.                                                         *)

InitEval ==
    /\ InitPage
    /\ query = AllUndefined
    /\ evalG \in EvalGalls
    /\ evalQ \in EvalQueries
    /\ evalOut = NoOutput

Evaluate ==
    /\ ~evalOut.done
    /\ evalOut' = [done |-> TRUE,
                   dc |-> [f \in Facets |-> dontCare(evalQ[f])],
                   facet |-> [f \in Facets |-> facetResult(f, evalG, evalQ)],
                   match |-> checkGall(evalG, evalQ)]
    /\ UNCHANGED <<evalG, evalQ>>
    /\ UNCHANGED pageVars

NextEval == Evaluate

SpecEval == InitEval /\ [][NextEval]_vars

-----------------------------------------------------------------------------
(* Vocabulary of the properties.                                           *)

\* a don't-care query value: key absent, empty string or empty sequence
IsDontCareValue(o) ==
    o.t = "undefined" \/ (o.t \in {"string", "array"} /\ Len(o.v) = 0)

\* a non-empty string or a non-empty sequence
IsSetValue(o) == o.t \in {"string", "array"} /\ Len(o.v) > 0

\* the gall attribute a facet reads
AttrOf(f) ==
    CASE f = "locations" -> "galllocation"
      [] f = "textures" -> "galltexture"
      [] OTHER -> f

\* the key of a location / texture row that holds its tag
TagKey(f) == IF f = "locations" THEN "location" ELSE "texture"

\* the tags a gall carries for a multi-valued facet (rows without a tag carry none)
TagsOf(g, f) ==
    LET rows == g[AttrOf(f)]
        k == TagKey(f)
    IN  IF rows.t # "array" THEN {}
        ELSE {rows.v[i].v[k].v[k].v :
                i \in {j \in 1..Len(rows.v) :
                         /\ rows.v[j].v[k].t = "object"
                         /\ rows.v[j].v[k].v[k].t = "string"}}

\* the elements of a query sequence
Elements(o) == {o.v[i] : i \in 1..Len(o.v)}

\* the (field, value) pairs doSearch is called with
EditInputs == ChangeInputs \cup {<<e[1], Str(e[2])>> : e \in EnterInputs}

\* a step that leaves the root form and the fetches alone, as every facet
\* edit does
RootUntouched == UNCHANGED <<hostField, genusField, requests>>

\* the step in which doSearch(in[1], in[2]) runs
EditWith(in) ==
    /\ RootUntouched
    /\ \/ onChange(in[1], in[2])
       \/ (in[2].t = "string" /\ onKeyDown(in[1], in[2].v))

\* a step in which a facet input calls doSearch
FacetEdit == \E in \in EditInputs : EditWith(in)

\* a step in which a pending submission resolves with status 200
Resolved200 ==
    \E i \in 1..Len(requests) :
        requests[i].status = "pending" /\ requests'[i].status = "ok"

\* a step in which a pending submission ends in the catch block
ResolvedFailed ==
    \E i \in 1..Len(requests) :
        requests[i].status = "pending" /\ requests'[i].status = "failed"

\* a step in which onSubmit is entered and issues its fetch
Submitted == Len(requests') = Len(requests) + 1

-----------------------------------------------------------------------------
(* C1.  When a root submission succeeds, the displayed galls become        *)
(* exactly the fetched sequence and every facet of the query becomes       *)
(* don't-care.                                                             *)
C1_RootSuccessResetsQuery ==
    [][Resolved200 =>
         /\ galls' = superset'
         /\ \A f \in Facets : IsDontCareValue(query'[f])]_vars

(* C2.  A failing root submission leaves the displayed galls and the       *)
(* query as they were: neither entering onSubmit nor its catch block       *)
(* changes either of them.                                                 *)
C2_FailureLeavesState ==
    [][(Submitted \/ ResolvedFailed) => UNCHANGED <<galls, query>>]_vars

\* a submission has failed while galls were displayed under a narrowed query
C2_Witness ==
    /\ \E i \in 1..Len(requests) : requests[i].status = "failed"
    /\ galls # <<>>
    /\ excluded # {}
    /\ \E f \in Facets : IsSetValue(query[f])

(* C3.  A facet edit (field, value) sets the query to the old query with   *)
(* the value merged at key field, and the displayed galls to the galls     *)
(* displayed before the edit that match that new query.                    *)
C3_EditFiltersDisplayed ==
    [][\A in \in EditInputs :
          EditWith(in)
          => /\ query' = updateQuery(in[1], in[2])
             /\ \A f \in Facets \ {in[1]} : query'[f] = query[f]
             /\ galls' = SelectSeq(galls, LAMBDA g : checkGall(g, query'))]_vars

\* edits have acted, and the displayed galls are not the superset filtered
\* by the query
C3_Witness ==
    /\ excluded # {}
    /\ galls # <<>>
    /\ galls # SelectSeq(superset, LAMBDA g : checkGall(g, query))

(* C4.  Between root fetches filtering only narrows: a step that is not a  *)
(* successful root fetch never adds a gall to the displayed ones, and a    *)
(* gall filtered out since the last fetch is never displayed again, even   *)
(* when the facet that excluded it is set back to don't-care.              *)
C4_MonotoneNarrowing ==
    /\ [][~Resolved200 => Ids(galls') \subseteq Ids(galls)]_vars
    /\ [](excluded \cap Ids(galls) = {})

\* fetched 1 green/stem, 2 brown/leaf, 3 green/leaf; color has been cleared
\* again, only 3 is displayed, and 2 matches the query but stays excluded
C4_Witness ==
    /\ superset = <<gall1, gall2, gall3>>
    /\ galls = <<gall3>>
    /\ query["color"].t = "array" /\ Len(query["color"].v) = 0
    /\ query["locations"].t = "array" /\ Elements(query["locations"]) = {leaf, root}
    /\ excluded = {1, 2}
    /\ checkGall(gall2, query)

(* C5.  checkGall matches a gall iff each of the eight facets is           *)
(* satisfied; one unsatisfied facet is enough for the gall not to match.   *)
C5_MatchIsConjunction ==
    evalOut.done => (evalOut.match <=> \A f \in Facets : evalOut.facet[f])

\* exactly one facet is unsatisfied, another constrained facet is satisfied
C5_Witness ==
    /\ evalOut.done
    /\ ~evalOut.match
    /\ Cardinality({f \in Facets : ~evalOut.facet[f]}) = 1
    /\ \E f \in Facets : IsSetValue(evalQ[f]) /\ evalOut.facet[f]

(* C6.  A facet whose query value is don't-care (absent, empty string or   *)
(* empty sequence) is satisfied by every gall, also one whose value for    *)
(* the facet is null; the all-don't-care query matches every gall; and a   *)
(* non-empty string or sequence is never don't-care.                       *)
C6_DontCare ==
    evalOut.done =>
        /\ \A f \in Facets :
              IsDontCareValue(evalQ[f]) => evalOut.dc[f] /\ evalOut.facet[f]
        /\ (\A f \in Facets : IsDontCareValue(evalQ[f])) => evalOut.match
        /\ \A f \in Facets : IsSetValue(evalQ[f]) => ~evalOut.dc[f]

\* an empty sequence and an empty string as query values, on a gall whose
\* value for one of the two facets is null
C6_Witness ==
    /\ evalOut.done
    /\ evalOut.match
    /\ \E f, h \in Facets :
          /\ evalQ[f].t = "array" /\ evalQ[h].t = "string"
          /\ IsDontCareValue(evalQ[f]) /\ IsDontCareValue(evalQ[h])
          /\ evalG[AttrOf(f)].t = "null"

(* C7.  For alignment, cells, color, shape and walls with a non-empty      *)
(* string as query value, the facet is satisfied iff the gall's value is   *)
(* present and is the same string, character for character; a gall whose   *)
(* value is null never satisfies it.                                       *)
C7_SingleExactMatch ==
    evalOut.done =>
        \A f \in SingleFacets \ {"detachable"} :
            (evalQ[f].t = "string" /\ Len(evalQ[f].v) > 0) =>
                (evalOut.facet[f] <=>
                    /\ evalG[f].t = "object"
                    /\ evalG[f].v[f].t = "string"
                    /\ evalG[f].v[f].v = evalQ[f].v)

\* color "Green" against the query value "green": not satisfied
C7_Witness ==
    /\ evalOut.done
    /\ evalQ["color"].t = "string" /\ evalQ["color"].v = green
    /\ evalG["color"].t = "object" /\ evalG["color"].v["color"].v = Green
    /\ ~evalOut.facet["color"]

(* C8.  For locations and textures with a non-empty sequence as query      *)
(* value, the facet is satisfied iff the gall's rows are non-null and at   *)
(* least one of their tags is an element of the query sequence.            *)
C8_MultiAnyOf ==
    evalOut.done =>
        \A f \in MultiFacets :
            (evalQ[f].t = "array" /\ Len(evalQ[f].v) > 0) =>
                (evalOut.facet[f] <=>
                    /\ evalG[AttrOf(f)].t = "array"
                    /\ TagsOf(evalG, f) \cap Elements(evalQ[f]) # {})

\* tags {stem, leaf} against [leaf, root]: satisfied
C8_Witness ==
    /\ evalOut.done
    /\ TagsOf(evalG, "locations") = {stem, leaf}
    /\ evalQ["locations"].t = "array"
    /\ Elements(evalQ["locations"]) = {leaf, root}
    /\ evalOut.facet["locations"]

\* the label the search form offers for a detachable code
DetachableLabel(code) ==
    CASE code = 0 -> no
      [] code = 1 -> yes
      [] OTHER -> unsure

(* C9.  For detachable with a non-empty string as query value, the facet   *)
(* is satisfied iff the gall's code is present and its label (no, yes,     *)
(* unsure) is the query value.                                             *)
C9_DetachableLabels ==
    evalOut.done =>
        ((evalQ["detachable"].t = "string" /\ Len(evalQ["detachable"].v) > 0) =>
            (evalOut.facet["detachable"] <=>
                /\ evalG["detachable"].t = "number"
                /\ DetachableLabel(evalG["detachable"].v) = evalQ["detachable"].v))

(* C10.  onSubmit is entered, and its fetch issued, only with exactly one  *)
(* of host and genus populated.                                            *)
C10_ExactlyOneSelector ==
    [][Submitted => (Truthy(hostField) # Truthy(genusField))]_vars

(* C11.  While a root fetch is pending no facet edit takes effect: a facet *)
(* edit made between a root submission and its resolution changes neither  *)
(* the query nor the displayed galls.                                      *)
C11_NoEditWhilePending ==
    [][(Pending # {} /\ FacetEdit) => UNCHANGED <<galls, query>>]_vars

\* the strings a facet value asks for
Asked(value) == IF value.t = "array" THEN Elements(value) ELSE {value.v}

\* gall g carries one of the strings asked for, for facet f
Carries(g, f, value) ==
    CASE f \in MultiFacets -> TagsOf(g, f) \cap Asked(value) # {}
      [] f = "detachable" ->
            /\ g[f].t = "number"
            /\ DetachableLabel(g[f].v) \in Asked(value)
      [] OTHER ->
            /\ g[f].t = "object"
            /\ g[f].v[f].t = "string"
            /\ g[f].v[f].v \in Asked(value)

(* C12.  A facet edit has no error path: whatever the field and the value, *)
(* the query gets the key, and a value that none of the displayed galls    *)
(* carries leaves no gall displayed.                                       *)
C12_UnknownValueEmptiesDisplay ==
    [][\A in \in EditInputs :
          EditWith(in) =>
             /\ query'[in[1]].t # "undefined"
             /\ (IsSetValue(in[2])
                 /\ \A i \in 1..Len(galls) : ~Carries(galls[i], in[1], in[2]))
                => galls' = <<>>]_vars

\* two JavaScript values with the same type and content
SameValue(a, b) == a.t = b.t /\ a.v = b.v

(* C13.  A facet edit changes the query only at the edited key: the new     *)
(* entry is determined by the edit's value alone (it replaces the previous  *)
(* entry), every other entry is as before, and a don't-care value is stored *)
(* like any other.                                                          *)
C13_EditOverwritesOneKey ==
    [][\A in \in EditInputs :
          EditWith(in) =>
             /\ \A f \in Facets \ {in[1]} : SameValue(query'[f], query[f])
             /\ \/ SameValue(query'[in[1]], in[2])
                \/ Len(in[2].v) > 0 /\ SameValue(query'[in[1]], Index0(in[2]))
             /\ IsDontCareValue(in[2]) => SameValue(query'[in[1]], in[2])]_vars

\* a facet was cleared after galls had been filtered out by an earlier edit
C13_Witness ==
    /\ query["color"].t = "array"
    /\ Len(query["color"].v) = 0
    /\ IsSetValue(query["locations"])
    /\ excluded # {}

(* C14.  A fetch is issued only by a root submission, one per submission:   *)
(* the list of fetches grows only in a handleSubmit step whose validation   *)
(* passed, by exactly one pending fetch for the submitted root, and a facet *)
(* edit leaves the list as it is.                                           *)
C14_FetchOnlyOnSubmit ==
    [][/\ (Len(requests') # Len(requests)) =>
             /\ handleSubmit
             /\ Schema(hostField, genusField) = {}
             /\ Len(requests') = Len(requests) + 1
             /\ requests'[Len(requests')].status = "pending"
       /\ (handleSubmit /\ Schema(hostField, genusField) = {}) => Submitted
       /\ FacetEdit => UNCHANGED requests]_vars

\* two submissions have each issued a fetch, and a facet edit has acted since
C14_Witness ==
    /\ Len(requests) = 2
    /\ excluded # {}
    /\ \E f \in Facets : IsSetValue(query[f])

\* a step in which submission i resolves with status 200 after submission j
\* has done so, the two having been in flight together: i had been made when
\* j resolved, and is pending until this step
ResolvesLastOfTwo(i, j) ==
    /\ i \in Pending
    /\ requests'[i].status = "ok"
    /\ j \in 1..Len(requests)
    /\ requests[j].status = "ok"
    /\ requests[j].seen >= i

(* C15.  When two root submissions were in flight together and both        *)
(* succeed, in either order, the displayed galls after the second          *)
(* resolution are exactly the sequence of the response that resolved last: *)
(* nothing of the earlier response is kept.                                *)
C15_LastResolvedWins ==
    [][\A i, j \in 1..Len(requests) :
          ResolvesLastOfTwo(i, j) =>
             /\ galls' = superset'
             /\ Ids(galls') \subseteq Ids(superset')]_vars

\* two submissions that were in flight together have both succeeded, and the
\* galls displayed are those of the response that resolved last
C15_Witness ==
    /\ Len(requests) = 2
    /\ requests[1].status = "ok"
    /\ requests[2].status = "ok"
    /\ requests[1].seen = 2
    /\ galls = superset
    /\ galls # <<>>

\* the query that keeps q's entry for facet f and has no other key
OnlyFacet(q, f) == [AllUndefined EXCEPT ![f] = q[f]]

(* C16.  Facets are evaluated independently: the constant checkGall        *)
(* computes for a facet f under a query q is the one it computes under the *)
(* query that has q's entry for f and nothing else, so it depends only on  *)
(* the gall and on q[f]; whatever the other facets hold cannot change it,  *)
(* and a don't-care facet stays satisfied.                                 *)
C16_FacetsIndependent ==
    evalOut.done =>
        \A f \in Facets :
            /\ evalOut.facet[f] = facetResult(f, evalG, OnlyFacet(evalQ, f))
            /\ evalOut.dc[f] => evalOut.facet[f]

\* one facet is don't-care and satisfied, a second is set and satisfied, and
\* a third is set and unsatisfied
C16_Witness ==
    /\ evalOut.done
    /\ \E f \in Facets : evalOut.dc[f] /\ evalOut.facet[f]
    /\ \E f \in Facets : ~evalOut.dc[f] /\ evalOut.facet[f]
    /\ \E f \in Facets : ~evalOut.dc[f] /\ ~evalOut.facet[f]

(* C17.  When the Enter key edits a single-valued facet with a text, the   *)
(* query stores that whole text for the facet, and the displayed galls     *)
(* whose value for the facet equals the text satisfy the facet.            *)
C17_EnterStoresWholeString ==
    [][\A in \in EnterInputs :
          (in[1] \in SingleFacets /\ onKeyDown(in[1], in[2])) =>
             /\ SameValue(query'[in[1]], Str(in[2]))
             /\ \A i \in 1..Len(galls) :
                   Carries(galls[i], in[1], Str(in[2]))
                      => facetResult(in[1], galls[i], query')]_vars

(* C18.  When a facet is edited with a sequence of selections: a           *)
(* single-valued facet stores the first element of a non-empty sequence    *)
(* and a don't-care value for an empty one; locations and textures store   *)
(* the whole sequence unchanged.                                           *)
C18_SelectionStored ==
    [][\A in \in ChangeInputs :
          EditWith(in) =>
             IF in[1] \in MultiFacets
             THEN SameValue(query'[in[1]], in[2])
             ELSE IF Len(in[2].v) > 0
                  THEN SameValue(query'[in[1]], Str(in[2].v[1]))
                  ELSE IsDontCareValue(query'[in[1]])]_vars

\* two colors were selected and the first is stored, two locations were
\* selected and both are stored
C18_Witness ==
    /\ SameValue(filterForm["color"], Arr(<<brown, green>>))
    /\ SameValue(query["color"], Str(brown))
    /\ SameValue(query["locations"], Arr(<<leaf, root>>))
    /\ galls # <<>>

(* C19.  In every reachable state, after any root submissions and facet    *)
(* edits, every displayed gall matches the current query.                  *)
C19_DisplayedMatchQuery ==
    \A i \in 1..Len(galls) : checkGall(galls[i], query)

(* C20.  From a loaded state whose query has no facet set, after any       *)
(* sequence of edits each of which sets a value on a facet not edited      *)
(* before, the displayed galls are the fetched superset filtered by the    *)
(* final query: narrowing step by step gives what filtering the superset   *)
(* gives, whatever the order of the edits.                                 *)
C20_NarrowingIsFiltering ==
    narrowing => galls = SelectSeq(superset, LAMBDA g : checkGall(g, query))

\* two facets have been set one after the other, galls have been filtered
\* out and one is left
C20_Witness ==
    /\ narrowing
    /\ Cardinality({f \in Facets : IsSetValue(query[f])}) >= 2
    /\ excluded # {}
    /\ galls # <<>>

(* C21.  Facet edits are possible only while galls are displayed: in a     *)
(* state with no gall displayed (the initial one, or after filtering has   *)
(* left none) no facet input acts, and neither the query nor the displayed *)
(* galls change in any step but a root submission resolving with 200.      *)
C21_NoEditWhenEmpty ==
    [][(galls = <<>>) =>
          /\ ~FacetEdit
          /\ (Resolved200 \/ UNCHANGED <<galls, query>>)]_vars

\* filtering has left no gall displayed, and a new submission is in flight
C21_Witness ==
    /\ galls = <<>>
    /\ superset # <<>>
    /\ excluded = Ids(superset)
    /\ \E f \in Facets : IsSetValue(query[f])
    /\ Pending # {}

\* a is b with some of its elements left out: same order, none added
RECURSIVE IsSubsequence(_, _)
IsSubsequence(a, b) ==
    IF a = <<>> THEN TRUE
    ELSE IF b = <<>> THEN FALSE
    ELSE IF Head(a) = Head(b) THEN IsSubsequence(Tail(a), Tail(b))
    ELSE IsSubsequence(a, Tail(b))

(* C22.  A facet edit never adds, duplicates or reorders galls: the galls  *)
(* displayed after it are a subsequence of those displayed before, and in  *)
(* every state the displayed galls are a subsequence of the body of the    *)
(* last successful fetch.                                                  *)
C22_EditKeepsSubsequence ==
    /\ [][FacetEdit => IsSubsequence(galls', galls)]_vars
    /\ [](IsSubsequence(galls, superset))

\* of the fetched 1, 2, 3 an edit has left 1 and 3, in that order
C22_Witness ==
    /\ superset = <<gall1, gall2, gall3>>
    /\ excluded = {2}
    /\ Len(galls) = 2
    /\ galls[1].id = 1
    /\ galls[2].id = 3

====
